---- MODULE Spec2Model ----
(***************************************************************************)
(* A model of storage-proofs-porep/src/stacked/vanilla/utils.rs:           *)
(*   BitMask, RingBuf, UnsafeSlice, prepare_block and the                  *)
(*   environment-driven binding policy resolvers.                          *)
(*                                                                         *)
(* Each component has its own specification (SpecBitMask, SpecRing,        *)
(* SpecWorkers, SpecBlock, SpecSlice, SpecEnv).  A specification drives     *)
(* the variables of its component and holds the others at their idle      *)
(* value.                                                                  *)
(***************************************************************************)
EXTENDS Integers, Sequences, FiniteSets, TLC

VARIABLES
    \* ---- BitMask -------------------------------------------------------
    build,      \* "debug" (overflow checks on) or "release" (wrapping)
    mask,       \* BitMask.0: the u32 as the set of its bit positions that are 1
    bmPrev,     \* the value of BitMask.0 before the last call
    bmOp,       \* the last call: [op |-> "set_upto" | "set" | "get" | "none", arg |-> n]
    bmRet,      \* what the last get returned
    bmEver,     \* every bit that was set in some state so far
    bmStatus,   \* "ok", or "panicked" once a call has panicked
    bmSteps,    \* number of mutating calls so far
    \* ---- RingBuf ------------------------------------------------------
    slot_size,  \* RingBuf.slot_size
    num_slots,  \* RingBuf.num_slots
    data,       \* RingBuf.data: the bytes, indexed from 0
    rbViews,    \* the live slot views slot_mut has returned: [slot, start, end]
    rbIter,     \* the ChunksExactMut iter_slot_mut returned: [live, pos, end, chunk, done]
    rbYield,    \* the slices the current iterator has yielded so far: [start, end]
    rbOp,       \* the last call: [op, arg]
    rbStatus,   \* "ok", or "panicked" once a call has panicked
    \* ---- workers on one RingBuf ---------------------------------------
    wSlot,      \* worker -> the slot index it was given, or NoSlot
    wView,      \* worker -> the view slot_mut returned to it, or NoView
    wPc,        \* worker -> number of bytes of its view it has written
    wWriters,   \* byte offset -> the workers that have written that byte
    \* ---- prepare_block ------------------------------------------------
    blkKey,     \* replica_id of the last call: bytes indexed from 0
    blkLayer,   \* layer of the last call (u32)
    blkBuf,     \* the caller's buffer: bytes indexed from 0
    blkOld,     \* the buffer as it was before the last call
    blkStatus,  \* "ready" (no call yet), "done", or "panicked"
    \* ---- UnsafeSlice --------------------------------------------------
    mem,        \* the owner's allocation: element address -> value
    usBase,     \* address of element 0 of the region handed to from_slice
    usPtr,      \* UnsafeSlice.ptr
    usLen,      \* UnsafeSlice.len
    usLive,     \* the view is outstanding (not yet dropped)
    usShadow,   \* region index -> the last value written at that index through
                \* the view, or the region's value at from_slice
    usOld,      \* mem before the last call
    usOp,       \* the last call: [op, who, i, v]
    usRet,      \* what the last get / owner read returned
    usSnap,     \* what the last as_slice / as_mut_slice exposed: index -> value
    usStatus,   \* "ok", or "ub" once an access was out of bounds
    \* ---- binding policy resolvers -------------------------------------
    env,        \* the process environment: variable name -> [kind, s]
    envRet,     \* the last resolver call: [fn, raw, val, logged, again]
    envFirst,   \* variable name -> [called, raw, val] of the resolver's first call
    envSteps    \* environment changes and resolver calls so far

bmVars == <<build, mask, bmPrev, bmOp, bmRet, bmEver, bmStatus, bmSteps>>

rbVars == <<slot_size, num_slots, data, rbViews, rbIter, rbYield, rbOp, rbStatus>>

wVars == <<wSlot, wView, wPc, wWriters>>

blkVars == <<blkKey, blkLayer, blkBuf, blkOld, blkStatus>>

usVars == <<mem, usBase, usPtr, usLen, usLive, usShadow, usOld, usOp, usRet, usSnap,
            usStatus>>

envVars == <<env, envRet, envFirst, envSteps>>

vars == <<bmVars, rbVars, wVars, blkVars, usVars, envVars>>

----------------------------------------------------------------------------
(* Bounds *)

\* mutating BitMask calls in one run
MaxOps == 2
\* largest n passed to set_upto (n is a u8; 33 reaches the assertion)
MaxUpto == 33
\* largest i passed to set and get (i is a usize; 32 is past the mask width)
MaxIndex == 32

\* the bit indices get is called with: both ends of the mask, some inner bits
\* and the first index past the width
GetIndices == {0, 1, 7, 16, 31, MaxIndex}

\* largest slot_size a RingBuf is built with
MaxSlotSize == 4
\* largest num_slots a RingBuf is built with
MaxSlots == 3
\* worker threads writing to one RingBuf
NumWorkers == 2
\* bytes a prepare_block buffer may have beyond the 127 the layout needs
MaxExtra == 1
\* largest region an UnsafeSlice is built over
MaxRegion == 2
\* threads sharing one UnsafeSlice
NumSharers == 2
\* environment changes plus resolver calls in one run
MaxEnvOps == 4

----------------------------------------------------------------------------
(* u32 arithmetic on bit sets.  A u32 is the set of positions 0..31 of its  *)
(* one bits, so that the full 32-bit range is represented exactly.          *)

\* the width of BitMask.0
U32Bits == 32

U32 == SUBSET (0 .. (U32Bits - 1))

Builds == {"debug", "release"}

SetMin(S) == CHOOSE k \in S : \A j \in S : k <= j

\* `1 << n` on a u32.  A shift amount >= 32 overflows: with overflow checks the
\* operation panics, without them the amount is masked to its low five bits.
Shl1(n, b) ==
    IF n < U32Bits THEN [ok |-> TRUE, val |-> {n}]
    ELSE IF b = "debug" THEN [ok |-> FALSE, val |-> {}]
    ELSE [ok |-> TRUE, val |-> {n % U32Bits}]

\* `x - 1` on a u32: borrow through the low zero bits.  0 - 1 overflows: with
\* overflow checks it panics, without them it wraps to 0xFFFFFFFF.
SubOne(x, b) ==
    IF x # {} THEN
        LET k == SetMin(x)
        IN  [ok |-> TRUE, val |-> (x \ {k}) \cup (0 .. (k - 1))]
    ELSE IF b = "debug" THEN [ok |-> FALSE, val |-> {}]
    ELSE [ok |-> TRUE, val |-> 0 .. (U32Bits - 1)]

BitOr(x, y) == x \cup y

BitAnd(x, y) == x \cap y

\* BitMask::set_upto: assert!(n <= 32); self.0 |= (1 << n) - 1
SetUptoResult(m, n, b) ==
    IF ~(n <= 32) THEN [ok |-> FALSE, val |-> m]
    ELSE LET s == Shl1(n, b)
         IN  IF ~s.ok THEN [ok |-> FALSE, val |-> m]
             ELSE LET d == SubOne(s.val, b)
                  IN  IF ~d.ok THEN [ok |-> FALSE, val |-> m]
                      ELSE [ok |-> TRUE, val |-> BitOr(m, d.val)]

\* set with the or-assignment replaced by a plain assignment
SetResultAssign(m, i, b) ==
    LET s == Shl1(i, b)
    IN  IF ~s.ok THEN [ok |-> FALSE, val |-> m]
        ELSE [ok |-> TRUE, val |-> s.val]

\* BitMask::set: self.0 |= 1 << i
SetResult(m, i, b) ==
    LET s == Shl1(i, b)
    IN  IF ~s.ok THEN [ok |-> FALSE, val |-> m]
        ELSE [ok |-> TRUE, val |-> BitOr(m, s.val)]

\* BitMask::get: self.0 & (1 << i) != 0
GetResult(m, i, b) ==
    LET s == Shl1(i, b)
    IN  IF ~s.ok THEN [ok |-> FALSE, val |-> FALSE]
        ELSE [ok |-> TRUE, val |-> BitAnd(m, s.val) # {}]

\* bit i of a mask, as get reports it for i < 32
Bit(m, i) == i \in m

----------------------------------------------------------------------------
(* RingBuf: pure parts.  Sizes are usize; the model's sizes stay far below   *)
(* 2^64, so no product or sum here wraps.                                    *)

NoSlot == 0 - 1

NoView == [start |-> -1, end |-> -1]

NoIter == [live |-> FALSE, pos |-> 0, end |-> 0, chunk |-> 0, done |-> FALSE]

\* RingBuf::len: self.slot_size * self.num_slots
RingLen(ss, ns) == ss * ns

\* RingBuf::new: vec![0u8; slot_size * num_slots]
NewData(ss, ns) == [b \in 0 .. (RingLen(ss, ns) - 1) |-> 0]

\* slot_mut with the slot offset scaled by num_slots instead of slot_size
SlotStartByCount(ss, ns, slot) == ns * slot

\* slot_mut: let start = self.slot_size * slot
SlotStart(ss, ns, slot) == ss * slot

\* slot_mut: let end = start + self.slot_size
SlotEnd(ss, ns, slot) == SlotStart(ss, ns, slot) + ss

\* slot_mut: &mut self.slice_mut()[start..end].  Indexing a slice of length
\* len by start..end panics when start > end or end > len.
SlotMutResult(ss, ns, slot) ==
    LET start == SlotStart(ss, ns, slot)
        end   == SlotEnd(ss, ns, slot)
    IN  IF start > end \/ end > RingLen(ss, ns)
        THEN [ok |-> FALSE, start |-> start, end |-> end]
        ELSE [ok |-> TRUE, start |-> start, end |-> end]

\* iter_slot_mut with the chunk size taken from num_slots
IterChunkByCount(ss, ns) == ns

\* iter_slot_mut: chunks_exact_mut(self.slot_size)
IterChunk(ss, ns) == ss

\* iter_slot_mut: slice::chunks_exact_mut(chunk) panics on chunk = 0; else the
\* iterator runs over the first len - len % chunk bytes.
IterSlotMutResult(ss, ns) ==
    LET chunk == IterChunk(ss, ns)
        len   == RingLen(ss, ns)
    IN  IF chunk = 0 THEN [ok |-> FALSE, it |-> NoIter]
        ELSE [ok |-> TRUE,
              it |-> [live |-> TRUE, pos |-> 0, end |-> len - (len % chunk),
                      chunk |-> chunk, done |-> FALSE]]

\* the bytes of a half-open range
Bytes(r) == r.start .. (r.end - 1)

----------------------------------------------------------------------------
(* prepare_block: pure parts.  A byte slice is a function on 0 .. len-1.     *)

SliceLen(b) == Cardinality(DOMAIN b)

\* the byte written at offset 35, taken from the second byte of layer
LayerByteHigh(layer) == (layer \div 256) % 256

\* (layer & 0xFF) as u8: the low eight bits of layer
LayerByte(layer) == layer % 256

\* buf[at] = v.  Indexing past the end of the slice panics.
StoreByte(r, at, v) ==
    IF ~r.ok THEN r
    ELSE IF at >= SliceLen(r.buf) THEN [ok |-> FALSE, buf |-> r.buf]
    ELSE [ok |-> TRUE, buf |-> [r.buf EXCEPT ![at] = v]]

\* buf[..32].copy_from_slice(replica_id): the slicing panics on a buffer
\* shorter than 32, the copy on a replica_id whose length is not 32.
CopyKey(buf, key) ==
    IF 32 > SliceLen(buf) \/ SliceLen(key) # 32 THEN [ok |-> FALSE, buf |-> buf]
    ELSE [ok |-> TRUE, buf |-> [i \in DOMAIN buf |-> IF i < 32 THEN key[i] ELSE buf[i]]]

\* prepare_block(replica_id, layer, buf): the four statements in order; a
\* panic leaves the statements before it done.
PrepareBlockResult(key, layer, buf) ==
    StoreByte(StoreByte(StoreByte(CopyKey(buf, key), 35, LayerByte(layer)), 64, 128), 126, 2)

\* the inputs prepare_block is called with
Seeds == {0, 7, 255}

Fill(len, seed) == [i \in 0 .. (len - 1) |-> (seed * (i + 1)) % 256]

BufLens == 126 .. (127 + MaxExtra)

Bufs == {Fill(len, seed) : len \in BufLens, seed \in Seeds}

Keys == {[i \in 0 .. 31 |-> 171]}
          \cup {[i \in 0 .. (len - 1) |-> (5 * i + 1) % 256] : len \in 31 .. 33}

Layers == {0, 1, 255, 256, 300, 65791, 2147483647}

----------------------------------------------------------------------------
(* UnsafeSlice: pure parts.  Memory is counted in elements of T.             *)

\* the owner's allocation: the region plus one element on either side
MemLen == MaxRegion + 2

\* what the allocation holds when the region is handed over: a different
\* value at every address
InitMem == [a \in 0 .. (MemLen - 1) |-> 10 + a]

\* the values written through the view
WriteVals == {1, 2}

Sharers == 1 .. NumSharers

\* from_slice with the pointer taken from the start of the allocation
FromSlicePtrOfAlloc(base) == 0

\* from_slice: let ptr = source.as_mut_ptr()
FromSlicePtr(base) == base

\* self.ptr.add(index)
PtrAdd(ptr, index) == ptr + index

\* slice::from_raw_parts(self.ptr, self.len): index -> the element it exposes
FromRawParts(m, ptr, len) == [i \in 0 .. (len - 1) |-> m[PtrAdd(ptr, i)]]

\* element i of the region that was handed to from_slice, as its owner sees it
Source(m, base, i) == m[base + i]

----------------------------------------------------------------------------
(* Binding policy resolvers: pure parts.  A string is the sequence of its    *)
(* characters.                                                               *)

\* const P2_GROUP_SIZE: usize = 8
P2_GROUP_SIZE == 8

Unset == [kind |-> "unset", s |-> <<>>]

NotUnicode == [kind |-> "not_unicode", s |-> <<>>]

Str(s) == [kind |-> "str", s |-> s]

Digits == {"0", "1", "2", "3", "4", "5", "6", "7", "8", "9"}

DigitVal(c) ==
    CASE c = "0" -> 0 [] c = "1" -> 1 [] c = "2" -> 2 [] c = "3" -> 3 [] c = "4" -> 4
      [] c = "5" -> 5 [] c = "6" -> 6 [] c = "7" -> 7 [] c = "8" -> 8 [] c = "9" -> 9

RECURSIVE DigitsValue(_, _)
\* the value of a digit sequence, most significant digit first
DigitsValue(s, acc) ==
    IF s = <<>> THEN acc ELSE DigitsValue(Tail(s), acc * 10 + DigitVal(Head(s)))

\* str::parse::<usize>: an optional leading "+", then one or more decimal
\* digits; anything else (the empty string, a lone sign, "-", a blank, a
\* letter) is an error.  The strings of the model are too short to overflow.
ParseUsize(s) ==
    LET body == IF s # <<>> /\ Head(s) = "+" THEN Tail(s) ELSE s
    IN  IF body = <<>> \/ \E k \in 1 .. Len(body) : body[k] \notin Digits
        THEN [ok |-> FALSE, val |-> 0]
        ELSE [ok |-> TRUE, val |-> DigitsValue(body, 0)]

S_NoBinding == <<"N", "o", "B", "i", "n", "d", "i", "n", "g">>

S_Strict == <<"S", "t", "r", "i", "c", "t">>

S_Weak == <<"W", "e", "a", "k">>

S_Default == <<"D", "e", "f", "a", "u", "l", "t">>

S_ProcessingUnit == <<"P", "r", "o", "c", "e", "s", "s", "i", "n", "g", "U", "n", "i", "t">>

S_Core == <<"C", "o", "r", "e">>

S_Bogus == <<"B", "o", "g", "u", "s">>

S_strict == <<"s", "t", "r", "i", "c", "t">>

\* EnumFromStr for P2BoundPolicy: the exact variant name, or an error
ParseP2BoundPolicy(s) ==
    IF s = S_NoBinding THEN [ok |-> TRUE, val |-> "NoBinding"]
    ELSE IF s = S_Strict THEN [ok |-> TRUE, val |-> "Strict"]
    ELSE IF s = S_Weak THEN [ok |-> TRUE, val |-> "Weak"]
    ELSE [ok |-> FALSE, val |-> "NoBinding"]

\* EnumFromStr for P1BoundPolicy: the exact variant name, or an error
ParseP1BoundPolicy(s) ==
    IF s = S_Default THEN [ok |-> TRUE, val |-> "Default"]
    ELSE IF s = S_ProcessingUnit THEN [ok |-> TRUE, val |-> "ProcessingUnit"]
    ELSE IF s = S_Core THEN [ok |-> TRUE, val |-> "Core"]
    ELSE [ok |-> FALSE, val |-> "Default"]

\* std::env::var(..).and_then(|v| match v.parse() { Ok(val) => Ok(val),
\* Err(_) => { error!(..); Ok(default) } }).unwrap_or(default):
\* a string that parses gives its value; one that does not is logged and gives
\* the default; an unset or non-Unicode variable gives the default, unlogged.
Resolved(v, parsed, default) ==
    IF v.kind = "str"
    THEN IF parsed.ok THEN [val |-> parsed.val, logged |-> FALSE]
         ELSE [val |-> default, logged |-> TRUE]
    ELSE [val |-> default, logged |-> FALSE]

\* env_lock_p2_cores falling back to 0 when the variable cannot be read
EnvLockP2CoresZero(v) ==
    IF v.kind = "str" THEN Resolved(v, ParseUsize(v.s), P2_GROUP_SIZE)
    ELSE [val |-> 0, logged |-> FALSE]

\* env_lock_p2_cores
EnvLockP2Cores(v) == Resolved(v, ParseUsize(v.s), P2_GROUP_SIZE)

\* p2_binding_policy
P2BindingPolicy(v) == Resolved(v, ParseP2BoundPolicy(v.s), "NoBinding")

\* the flag resolvers: let res: usize = ...unwrap_or(1); res != 0
FlagResolved(v) ==
    LET r == Resolved(v, ParseUsize(v.s), 1)
    IN  [val |-> (r.val # 0), logged |-> r.logged]

\* p2_binding_use_same_set
P2BindingUseSameSet(v) == FlagResolved(v)

\* binding_use_locality that never logs a value it cannot parse
BindingUseLocalitySilent(v) == [val |-> FlagResolved(v).val, logged |-> FALSE]

\* binding_use_locality
BindingUseLocality(v) == FlagResolved(v)

\* p1_binding_policy
P1BindingPolicy(v) == Resolved(v, ParseP1BoundPolicy(v.s), "Default")

\* the five resolvers, by the name of the variable each reads
EnvKeys ==
    {"FIL_PROOFS_P2_BOUND_CORES", "FIL_PROOFS_P2_BINDING_POLICY",
     "FIL_PROOFS_P2_BINDING_USE_SAME_SET", "FIL_PROOFS_BINDING_USE_LOCALITY",
     "FIL_PROOFS_P1_BINDING_POLICY"}

Resolve(key, v) ==
    CASE key = "FIL_PROOFS_P2_BOUND_CORES" -> EnvLockP2Cores(v)
      [] key = "FIL_PROOFS_P2_BINDING_POLICY" -> P2BindingPolicy(v)
      [] key = "FIL_PROOFS_P2_BINDING_USE_SAME_SET" -> P2BindingUseSameSet(v)
      [] key = "FIL_PROOFS_BINDING_USE_LOCALITY" -> BindingUseLocality(v)
      [] key = "FIL_PROOFS_P1_BINDING_POLICY" -> P1BindingPolicy(v)

\* the strings the model sets each variable to
EnvStrings(key) ==
    CASE key = "FIL_PROOFS_P2_BOUND_CORES" ->
            {<<"1", "6">>, <<"0">>, <<"+", "1", "6">>, <<"a", "b", "c">>, <<>>, <<"-", "1">>}
      [] key = "FIL_PROOFS_P2_BINDING_POLICY" -> {S_NoBinding, S_Strict, S_Weak, S_Bogus, S_strict}
      [] key = "FIL_PROOFS_P2_BINDING_USE_SAME_SET" -> {<<"0">>, <<"1">>, <<"2">>, <<"o", "n">>}
      [] key = "FIL_PROOFS_BINDING_USE_LOCALITY" -> {<<"0">>, <<"1">>, <<"1", "6">>, <<"a", "b", "c">>}
      [] key = "FIL_PROOFS_P1_BINDING_POLICY" -> {S_Default, S_ProcessingUnit, S_Core, S_Strict}

EnvValues(key) == {Unset, NotUnicode} \cup {Str(s) : s \in EnvStrings(key)}

NoCall == [fn |-> "none", raw |-> Unset, val |-> 0, logged |-> FALSE, again |-> FALSE]

NeverCalled == [key \in EnvKeys |-> [called |-> FALSE, raw |-> Unset, val |-> 0]]

----------------------------------------------------------------------------
(* The idle value of each component: what its variables hold in the      *)
(* specifications of the other components.                                *)

Workers == 1 .. NumWorkers

BitMaskIdle ==
    /\ build = "release"
    /\ mask = {}
    /\ bmPrev = {}
    /\ bmOp = [op |-> "none", arg |-> 0]
    /\ bmRet = FALSE
    /\ bmEver = {}
    /\ bmStatus = "ok"
    /\ bmSteps = 0

RingIdle ==
    /\ slot_size = 0
    /\ num_slots = 0
    /\ data = NewData(0, 0)
    /\ rbViews = {}
    /\ rbIter = NoIter
    /\ rbYield = <<>>
    /\ rbOp = [op |-> "none", arg |-> 0]
    /\ rbStatus = "ok"

WorkersIdle ==
    /\ wSlot = [w \in Workers |-> NoSlot]
    /\ wView = [w \in Workers |-> NoView]
    /\ wPc = [w \in Workers |-> 0]
    /\ wWriters = <<>>

BlockIdle ==
    /\ blkKey = <<>>
    /\ blkLayer = 0
    /\ blkBuf = <<>>
    /\ blkOld = <<>>
    /\ blkStatus = "ready"

SliceIdle ==
    /\ mem = <<>>
    /\ usBase = 0
    /\ usPtr = 0
    /\ usLen = 0
    /\ usLive = FALSE
    /\ usShadow = <<>>
    /\ usOld = <<>>
    /\ usOp = [op |-> "none", who |-> 0, i |-> 0, v |-> 0]
    /\ usRet = 0
    /\ usSnap = <<>>
    /\ usStatus = "ok"

EnvIdle ==
    /\ env = [key \in EnvKeys |-> Unset]
    /\ envRet = NoCall
    /\ envFirst = NeverCalled
    /\ envSteps = 0

----------------------------------------------------------------------------
(* RingBuf: operations *)

\* the state after RingBuf::new(slot_size, num_slots)
RingBuf_new(ss, ns) ==
    /\ slot_size = ss
    /\ num_slots = ns
    /\ data = NewData(ss, ns)
    /\ rbViews = {}
    /\ rbIter = NoIter
    /\ rbYield = <<>>
    /\ rbOp = [op |-> "new", arg |-> 0]
    /\ rbStatus = "ok"

InitRing ==
    /\ BitMaskIdle
    /\ BlockIdle
    /\ SliceIdle
    /\ EnvIdle
    /\ WorkersIdle
    /\ \E ss \in 0 .. MaxSlotSize, ns \in 0 .. MaxSlots : RingBuf_new(ss, ns)

\* slot_mut(&self, slot).  The iterator borrows the buffer mutably, so no
\* slot_mut call is made while it lives; a caller takes no second view of a
\* slot it still holds a view of.
slot_mut(slot) ==
    /\ rbStatus = "ok"
    /\ ~rbIter.live
    /\ \A v \in rbViews : v.slot # slot
    /\ LET r == SlotMutResult(slot_size, num_slots, slot)
       IN  /\ rbViews' = IF r.ok
                         THEN rbViews \cup {[slot |-> slot, start |-> r.start, end |-> r.end]}
                         ELSE rbViews
           /\ rbStatus' = IF r.ok THEN "ok" ELSE "panicked"
    /\ rbOp' = [op |-> "slot_mut", arg |-> slot]
    /\ UNCHANGED <<slot_size, num_slots, data, rbIter, rbYield>>
    /\ UNCHANGED <<bmVars, wVars, blkVars, usVars, envVars>>

\* a slot view goes out of scope
drop_view(slot) ==
    /\ rbStatus = "ok"
    /\ \E v \in rbViews : v.slot = slot
    /\ rbViews' = {v \in rbViews : v.slot # slot}
    /\ rbOp' = [op |-> "drop_view", arg |-> slot]
    /\ UNCHANGED <<slot_size, num_slots, data, rbIter, rbYield, rbStatus>>
    /\ UNCHANGED <<bmVars, wVars, blkVars, usVars, envVars>>

\* iter_slot_mut(&mut self): needs the buffer unborrowed
iter_slot_mut ==
    /\ rbStatus = "ok"
    /\ ~rbIter.live
    /\ rbViews = {}
    /\ LET r == IterSlotMutResult(slot_size, num_slots)
       IN  /\ rbIter' = r.it
           /\ rbStatus' = IF r.ok THEN "ok" ELSE "panicked"
    /\ rbYield' = <<>>
    /\ rbOp' = [op |-> "iter_slot_mut", arg |-> 0]
    /\ UNCHANGED <<slot_size, num_slots, data, rbViews>>
    /\ UNCHANGED <<bmVars, wVars, blkVars, usVars, envVars>>

\* ChunksExactMut::next: None once fewer than chunk bytes remain, else the
\* next chunk bytes
iter_next ==
    /\ rbStatus = "ok"
    /\ rbIter.live
    /\ ~rbIter.done
    /\ IF rbIter.end - rbIter.pos < rbIter.chunk
       THEN /\ rbIter' = [rbIter EXCEPT !.done = TRUE]
            /\ rbYield' = rbYield
       ELSE /\ rbIter' = [rbIter EXCEPT !.pos = rbIter.pos + rbIter.chunk]
            /\ rbYield' = Append(rbYield,
                                 [start |-> rbIter.pos, end |-> rbIter.pos + rbIter.chunk])
    /\ rbOp' = [op |-> "iter_next", arg |-> 0]
    /\ UNCHANGED <<slot_size, num_slots, data, rbViews, rbStatus>>
    /\ UNCHANGED <<bmVars, wVars, blkVars, usVars, envVars>>

\* the iterator goes out of scope, at any point of the iteration
iter_drop ==
    /\ rbStatus = "ok"
    /\ rbIter.live
    /\ rbIter' = [rbIter EXCEPT !.live = FALSE]
    /\ rbOp' = [op |-> "iter_drop", arg |-> 0]
    /\ UNCHANGED <<slot_size, num_slots, data, rbViews, rbYield, rbStatus>>
    /\ UNCHANGED <<bmVars, wVars, blkVars, usVars, envVars>>

NextRing ==
    \/ \E slot \in 0 .. num_slots : slot_mut(slot)
    \/ \E slot \in 0 .. num_slots : drop_view(slot)
    \/ iter_slot_mut
    \/ iter_next
    \/ iter_drop

SpecRing == InitRing /\ [][NextRing]_vars

----------------------------------------------------------------------------
(* Worker threads on one RingBuf.  Each worker is given a slot index by the  *)
(* caller, takes its view with slot_mut and writes the view byte by byte;    *)
(* the workers' steps interleave freely.                                     *)

\* the byte worker w writes at index k of its view
Val(w, k) == 16 * w + k + 1

\* the caller's partition: pairwise distinct slot indices below num_slots
Partitions(ns) ==
    {f \in [Workers -> (0 .. (ns - 1)) \cup {NoSlot}] :
        \A v, w \in Workers : (v # w /\ f[v] # NoSlot) => f[v] # f[w]}

\* worker w calls slot_mut(wSlot[w])
w_slot_mut(w) ==
    /\ rbStatus = "ok"
    /\ wSlot[w] # NoSlot
    /\ wView[w] = NoView
    /\ LET r == SlotMutResult(slot_size, num_slots, wSlot[w])
       IN  /\ wView' = IF r.ok
                       THEN [wView EXCEPT ![w] = [start |-> r.start, end |-> r.end]]
                       ELSE wView
           /\ rbStatus' = IF r.ok THEN "ok" ELSE "panicked"
    /\ rbOp' = [op |-> "slot_mut", arg |-> wSlot[w]]
    /\ UNCHANGED <<slot_size, num_slots, data, rbViews, rbIter, rbYield>>
    /\ UNCHANGED <<wSlot, wPc, wWriters>>
    /\ UNCHANGED <<bmVars, blkVars, usVars, envVars>>

\* worker w writes the next byte of its view: view[k] = Val(w, k)
w_write(w) ==
    /\ rbStatus = "ok"
    /\ wView[w] # NoView
    /\ wPc[w] < wView[w].end - wView[w].start
    /\ LET at == wView[w].start + wPc[w]
       IN  /\ data' = [data EXCEPT ![at] = Val(w, wPc[w])]
           /\ wWriters' = [wWriters EXCEPT ![at] = @ \cup {w}]
    /\ wPc' = [wPc EXCEPT ![w] = @ + 1]
    /\ rbOp' = [op |-> "write", arg |-> w]
    /\ UNCHANGED <<slot_size, num_slots, rbViews, rbIter, rbYield, rbStatus>>
    /\ UNCHANGED <<wSlot, wView>>
    /\ UNCHANGED <<bmVars, blkVars, usVars, envVars>>

\* worker w has its view and has written all of it
WorkerDone(w) ==
    /\ wView[w] # NoView
    /\ wPc[w] = wView[w].end - wView[w].start

InitWorkers ==
    /\ BitMaskIdle
    /\ BlockIdle
    /\ SliceIdle
    /\ EnvIdle
    /\ \E ss \in 0 .. MaxSlotSize, ns \in 0 .. MaxSlots :
         /\ RingBuf_new(ss, ns)
         /\ wSlot \in Partitions(ns)
         /\ wWriters = [b \in 0 .. (RingLen(ss, ns) - 1) |-> {}]
    /\ wView = [w \in Workers |-> NoView]
    /\ wPc = [w \in Workers |-> 0]

NextWorkers ==
    \/ \E w \in Workers : w_slot_mut(w)
    \/ \E w \in Workers : w_write(w)

SpecWorkers == InitWorkers /\ [][NextWorkers]_vars

----------------------------------------------------------------------------
(* BitMask *)

\* #[derive(Default)]: BitMask(0)
InitBitMask ==
    /\ RingIdle
    /\ WorkersIdle
    /\ BlockIdle
    /\ SliceIdle
    /\ EnvIdle
    /\ build \in Builds
    /\ mask = {}
    /\ bmPrev = {}
    /\ bmOp = [op |-> "none", arg |-> 0]
    /\ bmRet = FALSE
    /\ bmEver = {}
    /\ bmStatus = "ok"
    /\ bmSteps = 0

set_upto(n) ==
    /\ bmStatus = "ok"
    /\ bmSteps < MaxOps
    /\ LET r == SetUptoResult(mask, n, build)
       IN  /\ mask' = r.val
           /\ bmStatus' = IF r.ok THEN "ok" ELSE "panicked"
    /\ bmPrev' = mask
    /\ bmOp' = [op |-> "set_upto", arg |-> n]
    /\ bmEver' = bmEver \cup mask'
    /\ bmSteps' = bmSteps + 1
    /\ UNCHANGED <<build, bmRet>>
    /\ UNCHANGED <<rbVars, wVars, blkVars, usVars, envVars>>

set(i) ==
    /\ bmStatus = "ok"
    /\ bmSteps < MaxOps
    /\ LET r == SetResult(mask, i, build)
       IN  /\ mask' = r.val
           /\ bmStatus' = IF r.ok THEN "ok" ELSE "panicked"
    /\ bmPrev' = mask
    /\ bmOp' = [op |-> "set", arg |-> i]
    /\ bmEver' = bmEver \cup mask'
    /\ bmSteps' = bmSteps + 1
    /\ UNCHANGED <<build, bmRet>>
    /\ UNCHANGED <<rbVars, wVars, blkVars, usVars, envVars>>

get(i) ==
    /\ bmStatus = "ok"
    /\ LET r == GetResult(mask, i, build)
       IN  /\ bmRet' = r.val
           /\ bmStatus' = IF r.ok THEN "ok" ELSE "panicked"
    /\ bmPrev' = mask
    /\ bmOp' = [op |-> "get", arg |-> i]
    /\ UNCHANGED <<build, mask, bmEver, bmSteps>>
    /\ UNCHANGED <<rbVars, wVars, blkVars, usVars, envVars>>

NextBitMask ==
    \/ \E n \in 0 .. MaxUpto : set_upto(n)
    \/ \E i \in 0 .. MaxIndex : set(i)
    \/ \E i \in GetIndices : get(i)

SpecBitMask == InitBitMask /\ [][NextBitMask]_vars

----------------------------------------------------------------------------
(* prepare_block *)

\* a caller's buffer with whatever it held before
InitBlock ==
    /\ BitMaskIdle
    /\ RingIdle
    /\ WorkersIdle
    /\ SliceIdle
    /\ EnvIdle
    /\ blkKey = <<>>
    /\ blkLayer = 0
    /\ blkBuf \in Bufs
    /\ blkOld = blkBuf
    /\ blkStatus = "ready"

\* prepare_block(key, layer, &mut blkBuf); the buffer is reused from call to call
prepare_block(key, layer) ==
    /\ blkStatus # "panicked"
    /\ LET r == PrepareBlockResult(key, layer, blkBuf)
       IN  /\ blkBuf' = r.buf
           /\ blkStatus' = IF r.ok THEN "done" ELSE "panicked"
    /\ blkOld' = blkBuf
    /\ blkKey' = key
    /\ blkLayer' = layer
    /\ UNCHANGED <<bmVars, rbVars, wVars, usVars, envVars>>

NextBlock == \E key \in Keys, layer \in Layers : prepare_block(key, layer)

SpecBlock == InitBlock /\ [][NextBlock]_vars

----------------------------------------------------------------------------
(* UnsafeSlice.  The view is shared by reference between the sharers; every  *)
(* access below is one atomic step (the caller keeps conflicting accesses    *)
(* apart).  An index >= len is undefined behaviour: the access may hit any   *)
(* element of the allocation or none.                                        *)

\* the state after UnsafeSlice::from_slice(&mut alloc[base .. base + len])
from_slice(base, len) ==
    /\ mem = InitMem
    /\ usBase = base
    /\ usPtr = FromSlicePtr(base)
    /\ usLen = len
    /\ usLive = TRUE
    /\ usShadow = [i \in 0 .. (len - 1) |-> Source(InitMem, base, i)]
    /\ usOld = InitMem
    /\ usOp = [op |-> "from_slice", who |-> 0, i |-> 0, v |-> 0]
    /\ usRet = 0
    /\ usSnap = <<>>
    /\ usStatus = "ok"

InitSlice ==
    /\ BitMaskIdle
    /\ RingIdle
    /\ WorkersIdle
    /\ BlockIdle
    /\ EnvIdle
    /\ \E len \in 0 .. MaxRegion : \E base \in 0 .. (MemLen - len) : from_slice(base, len)

\* *view.get_mut(i) = v
get_mut_write(who, i, v) ==
    /\ usStatus = "ok"
    /\ usLive
    /\ IF i < usLen
       THEN /\ mem' = [mem EXCEPT ![PtrAdd(usPtr, i)] = v]
            /\ usShadow' = [usShadow EXCEPT ![i] = v]
            /\ usStatus' = "ok"
       ELSE /\ \/ mem' = mem
               \/ \E a \in DOMAIN mem : mem' = [mem EXCEPT ![a] = v]
            /\ usShadow' = usShadow
            /\ usStatus' = "ub"
    /\ usOld' = mem
    /\ usOp' = [op |-> "get_mut", who |-> who, i |-> i, v |-> v]
    /\ usRet' = 0
    /\ usSnap' = <<>>
    /\ UNCHANGED <<usBase, usPtr, usLen, usLive>>
    /\ UNCHANGED <<bmVars, rbVars, wVars, blkVars, envVars>>

\* *view.get(i)
UnsafeSlice_get(who, i) ==
    /\ usStatus = "ok"
    /\ usLive
    /\ IF i < usLen
       THEN /\ usRet' = mem[PtrAdd(usPtr, i)]
            /\ usStatus' = "ok"
       ELSE /\ \E a \in DOMAIN mem : usRet' = mem[a]
            /\ usStatus' = "ub"
    /\ usOld' = mem
    /\ usOp' = [op |-> "get", who |-> who, i |-> i, v |-> 0]
    /\ usSnap' = <<>>
    /\ UNCHANGED <<mem, usBase, usPtr, usLen, usLive, usShadow>>
    /\ UNCHANGED <<bmVars, rbVars, wVars, blkVars, envVars>>

\* view.as_slice() / view.as_mut_slice(): the whole region, read
as_slice(who) ==
    /\ usStatus = "ok"
    /\ usLive
    /\ usSnap' = FromRawParts(mem, usPtr, usLen)
    /\ usOld' = mem
    /\ usOp' = [op |-> "as_slice", who |-> who, i |-> 0, v |-> 0]
    /\ usRet' = 0
    /\ UNCHANGED <<mem, usBase, usPtr, usLen, usLive, usShadow, usStatus>>
    /\ UNCHANGED <<bmVars, rbVars, wVars, blkVars, envVars>>

\* the view is dropped: the region is the owner's again
release ==
    /\ usStatus = "ok"
    /\ usLive
    /\ usLive' = FALSE
    /\ usOld' = mem
    /\ usOp' = [op |-> "release", who |-> 0, i |-> 0, v |-> 0]
    /\ usRet' = 0
    /\ usSnap' = <<>>
    /\ UNCHANGED <<mem, usBase, usPtr, usLen, usShadow, usStatus>>
    /\ UNCHANGED <<bmVars, rbVars, wVars, blkVars, envVars>>

\* the owner reads source[i] after the view is gone (bounds-checked)
owner_read(i) ==
    /\ usStatus = "ok"
    /\ ~usLive
    /\ i < usLen
    /\ usRet' = Source(mem, usBase, i)
    /\ usOld' = mem
    /\ usOp' = [op |-> "owner_read", who |-> 0, i |-> i, v |-> 0]
    /\ usSnap' = <<>>
    /\ UNCHANGED <<mem, usBase, usPtr, usLen, usLive, usShadow, usStatus>>
    /\ UNCHANGED <<bmVars, rbVars, wVars, blkVars, envVars>>

NextSlice ==
    \/ \E who \in Sharers, i \in 0 .. usLen, v \in WriteVals : get_mut_write(who, i, v)
    \/ \E who \in Sharers, i \in 0 .. usLen : UnsafeSlice_get(who, i)
    \/ \E who \in Sharers : as_slice(who)
    \/ release
    \/ \E i \in 0 .. usLen : owner_read(i)

SpecSlice == InitSlice /\ [][NextSlice]_vars

----------------------------------------------------------------------------
(* Binding policy resolvers.  The process starts with none of the five       *)
(* variables set; the environment changes between calls.                     *)

InitEnv ==
    /\ BitMaskIdle
    /\ RingIdle
    /\ WorkersIdle
    /\ BlockIdle
    /\ SliceIdle
    /\ env = [key \in EnvKeys |-> Unset]
    /\ envRet = NoCall
    /\ envFirst = NeverCalled
    /\ envSteps = 0

\* std::env::var(key) with the value of the resolver's first call kept
EnvVarOnce(key) == IF envFirst[key].called THEN envFirst[key].raw ELSE env[key]

\* std::env::var(key): the variable as the environment holds it now
EnvVar(key) == env[key]

\* the environment changes: set_var / remove_var
set_var(key, v) ==
    /\ envSteps < MaxEnvOps
    /\ env[key] # v
    /\ env' = [env EXCEPT ![key] = v]
    /\ envRet' = NoCall
    /\ envSteps' = envSteps + 1
    /\ UNCHANGED envFirst
    /\ UNCHANGED <<bmVars, rbVars, wVars, blkVars, usVars>>

\* a call of the resolver that reads key: the value it returns, whether it
\* logged an error, and whether it had been called before
Called(key) ==
    LET raw == EnvVar(key)
        r   == Resolve(key, raw)
    IN  /\ envRet' = [fn |-> key, raw |-> raw, val |-> r.val, logged |-> r.logged,
                      again |-> envFirst[key].called]
        /\ envFirst' = IF envFirst[key].called THEN envFirst
                       ELSE [envFirst EXCEPT
                                ![key] = [called |-> TRUE, raw |-> raw, val |-> r.val]]
        /\ envSteps' = envSteps + 1
        /\ UNCHANGED env
        /\ UNCHANGED <<bmVars, rbVars, wVars, blkVars, usVars>>

env_lock_p2_cores ==
    /\ envSteps < MaxEnvOps
    /\ Called("FIL_PROOFS_P2_BOUND_CORES")

p2_binding_policy ==
    /\ envSteps < MaxEnvOps
    /\ Called("FIL_PROOFS_P2_BINDING_POLICY")

p2_binding_use_same_set ==
    /\ envSteps < MaxEnvOps
    /\ Called("FIL_PROOFS_P2_BINDING_USE_SAME_SET")

binding_use_locality ==
    /\ envSteps < MaxEnvOps
    /\ Called("FIL_PROOFS_BINDING_USE_LOCALITY")

p1_binding_policy ==
    /\ envSteps < MaxEnvOps
    /\ Called("FIL_PROOFS_P1_BINDING_POLICY")

NextEnv ==
    \/ \E key \in EnvKeys : \E v \in EnvValues(key) : set_var(key, v)
    \/ env_lock_p2_cores
    \/ p2_binding_policy
    \/ p2_binding_use_same_set
    \/ binding_use_locality
    \/ p1_binding_policy

SpecEnv == InitEnv /\ [][NextEnv]_vars

----------------------------------------------------------------------------
(* Claims about BitMask *)

\* C1 (as stated): for every n with 0 <= n <= 32 and every prior mask,
\* set_upto(n) completes, afterwards get(i) is true for every i in [0, n), and
\* every bit i in [n, 32) keeps the value it had before the call.
C1_SetUptoEveryN ==
    (bmOp.op = "set_upto" /\ bmOp.arg <= 32) =>
        /\ bmStatus = "ok"
        /\ \A i \in 0 .. (bmOp.arg - 1) : GetResult(mask, i, build).val
        /\ \A i \in bmOp.arg .. (U32Bits - 1) : Bit(mask, i) = Bit(bmPrev, i)

\* Below the width the claim of C1 holds: set_upto(n) with n < 32 completes,
\* sets the bits of [0, n) and leaves the bits of [n, 32) as they were.
SetUptoBelowWidth ==
    (bmOp.op = "set_upto" /\ bmOp.arg < U32Bits) =>
        /\ bmStatus = "ok"
        /\ mask = bmPrev \cup (0 .. (bmOp.arg - 1))

\* C10: a BitMask only grows. Every bit that get reported set in some earlier
\* state (bmEver) is still reported set; set(i) with i < 32 completes, sets bit
\* i and changes no other bit; and set(i) on a mask that already holds bit i
\* (a repeated set) leaves the mask unchanged.
C10_OnlyGrows ==
    /\ \A i \in bmEver : GetResult(mask, i, build).val
    /\ (bmOp.op = "set" /\ bmOp.arg < U32Bits) =>
          /\ bmStatus = "ok"
          /\ GetResult(mask, bmOp.arg, build).val
          /\ \A j \in (0 .. (U32Bits - 1)) \ {bmOp.arg} : Bit(mask, j) = Bit(bmPrev, j)
          /\ (Bit(bmPrev, bmOp.arg) => mask = bmPrev)

\* a set(i) that added bit i to a mask already holding other bits
C10_Witness ==
    /\ bmOp.op = "set"
    /\ bmOp.arg < U32Bits
    /\ bmStatus = "ok"
    /\ bmPrev # {}
    /\ bmOp.arg \notin bmPrev
    /\ mask = bmPrev \cup {bmOp.arg}

----------------------------------------------------------------------------
(* Claims about RingBuf *)

\* the byte range the layout gives slot s: [s*slot_size, (s+1)*slot_size)
SlotBytes(s) == (s * slot_size) .. ((s + 1) * slot_size - 1)

\* C2: slot_mut(s) for every s < num_slots returns a view of exactly slot_size
\* bytes covering [s*slot_size, (s+1)*slot_size), the range lies inside
\* [0, slot_size*num_slots), and the views of two distinct slots share no byte.
C2_SlotViews ==
    /\ (rbOp.op = "slot_mut" /\ rbOp.arg < num_slots) =>
          /\ rbStatus = "ok"
          /\ \E v \in rbViews : v.slot = rbOp.arg
    /\ \A v \in rbViews : v.slot < num_slots =>
          /\ v.end - v.start = slot_size
          /\ Bytes(v) = SlotBytes(v.slot)
          /\ 0 <= v.start
          /\ v.end <= slot_size * num_slots
    /\ \A u, v \in rbViews :
          (u.slot < num_slots /\ v.slot < num_slots /\ u.slot # v.slot) =>
             Bytes(u) \cap Bytes(v) = {}

\* two live views of distinct slots, each of several bytes
C2_Witness ==
    /\ slot_size >= 2
    /\ rbStatus = "ok"
    /\ \E u, v \in rbViews : u.slot # v.slot /\ u.slot < num_slots /\ v.slot < num_slots

\* the sequence of slices the layout prescribes: the k-th covers
\* [k*slot_size, (k+1)*slot_size), k counted from 0
AllSlots ==
    [k \in 1 .. num_slots |-> [start |-> (k - 1) * slot_size, end |-> k * slot_size]]

\* what an iteration must satisfy: the call returns a fresh iterator, every
\* slice yielded so far is the next slot in ascending order, and the exhausted
\* iterator has yielded exactly the num_slots slots, which cover
\* [0, slot_size*num_slots) with no gap and no overlap.
IterationRight ==
    /\ rbOp.op = "iter_slot_mut" =>
          /\ rbStatus = "ok"
          /\ rbYield = <<>>
          /\ rbIter.live /\ rbIter.pos = 0
    /\ Len(rbYield) <= num_slots
    /\ \A k \in 1 .. Len(rbYield) :
          /\ rbYield[k] = AllSlots[k]
          /\ rbYield[k].end - rbYield[k].start = slot_size
          /\ rbYield[k].start = (IF k = 1 THEN 0 ELSE rbYield[k - 1].end)
    /\ rbIter.done =>
          /\ rbYield = AllSlots
          /\ (num_slots > 0 => rbYield[num_slots].end = slot_size * num_slots)

\* C3 (as stated): for every RingBuf new constructs, any slot_size >= 0 and
\* num_slots >= 0, each iter_slot_mut call yields exactly the num_slots slices
\* of length slot_size, in ascending order, covering the buffer exactly.
C3_IterAnySize == IterationRight

\* C3 (amended): the same for every RingBuf with slot_size >= 1.
C3_IterPositiveSize == (slot_size >= 1) => IterationRight

\* slot_size = 4, num_slots = 3: the exhausted iterator has yielded 3 slices of
\* length 4 covering [0, 12)
C3_Witness ==
    /\ slot_size = 4
    /\ num_slots = 3
    /\ rbIter.done
    /\ rbYield = << [start |-> 0, end |-> 4], [start |-> 4, end |-> 8],
                    [start |-> 8, end |-> 12] >>

\* C9: workers holding pairwise distinct slots and writing only through their
\* own slot_mut views: under every interleaving no byte has two writers, every
\* written byte lies in its writer's slot, each slot holds exactly the bytes
\* its worker has written so far (all of them once the worker is done), and
\* the bytes of slots no worker holds stay as new left them.
C9_DisjointWrites ==
    /\ rbStatus = "ok"
    /\ \A b \in DOMAIN data :
          /\ Cardinality(wWriters[b]) <= 1
          /\ \A w \in wWriters[b] : b \in SlotBytes(wSlot[w])
          /\ (wWriters[b] = {}) => data[b] = 0
    /\ \A w \in Workers : wSlot[w] # NoSlot =>
          \A k \in 0 .. (slot_size - 1) :
             data[wSlot[w] * slot_size + k] = (IF k < wPc[w] THEN Val(w, k) ELSE 0)
    /\ \A w \in Workers : WorkerDone(w) =>
          \A k \in 0 .. (slot_size - 1) : data[wSlot[w] * slot_size + k] = Val(w, k)

\* every worker holds a slot of several bytes and has written all of it
C9_Witness ==
    /\ slot_size >= 2
    /\ \A w \in Workers : wSlot[w] # NoSlot /\ WorkerDone(w)

----------------------------------------------------------------------------
(* Claims about prepare_block *)

\* C4: for every 32-byte key, every layer and every buffer of length >= 127
\* with arbitrary prior contents, prepare_block completes and leaves bytes
\* [0,32) equal to the key, byte 35 equal to layer mod 256, byte 64 equal to
\* 0x80, byte 126 equal to 0x02, and every other byte as it was before.
C4_BlockLayout ==
    (blkStatus # "ready" /\ SliceLen(blkKey) = 32 /\ SliceLen(blkOld) >= 127) =>
        /\ blkStatus = "done"
        /\ DOMAIN blkBuf = DOMAIN blkOld
        /\ \A i \in DOMAIN blkBuf :
              blkBuf[i] = (IF i < 32 THEN blkKey[i]
                           ELSE IF i = 35 THEN blkLayer % 256
                           ELSE IF i = 64 THEN 128
                           ELSE IF i = 126 THEN 2
                           ELSE blkOld[i])

\* layer = 300 on a 128-byte buffer whose untouched bytes were not zero
C4_Witness ==
    /\ blkStatus = "done"
    /\ blkLayer = 300
    /\ SliceLen(blkBuf) = 128
    /\ blkBuf[35] = 44
    /\ blkOld[33] # 0 /\ blkBuf[33] = blkOld[33]
    /\ blkOld[127] # 0 /\ blkBuf[127] = blkOld[127]
    /\ blkOld[0] # blkBuf[0]

----------------------------------------------------------------------------
(* Claims about UnsafeSlice *)

\* C5: for every i < L, get(i) and get_mut(i) through any sharer designate
\* element i of the original region: a write through get_mut(i) changes that
\* element and no other element of memory, get(i) and as_slice()[i] read the
\* value last written at i, and so does the owner once the view is released.
C5_SameElement ==
    usStatus = "ok" =>
        /\ (usOp.op = "get_mut") =>
              /\ Source(mem, usBase, usOp.i) = usOp.v
              /\ \A a \in DOMAIN mem : a # usBase + usOp.i => mem[a] = usOld[a]
        /\ (usOp.op = "get") => usRet = usShadow[usOp.i]
        /\ (usOp.op = "as_slice") => usSnap = usShadow
        /\ (usOp.op = "owner_read") => usRet = usShadow[usOp.i]
        /\ \A i \in 0 .. (usLen - 1) : Source(mem, usBase, i) = usShadow[i]

\* one sharer wrote index 1 of a region that starts inside the allocation,
\* and the owner read that value back after the release
C5_Witness ==
    /\ usStatus = "ok"
    /\ usBase > 0
    /\ usOp.op = "owner_read"
    /\ usOp.i = 1
    /\ usRet \in WriteVals
    /\ usShadow[0] \notin WriteVals

----------------------------------------------------------------------------
(* Claims about the binding policy resolvers.  The expected values are      *)
(* written out string by string, independently of the parsers above.        *)

\* the value of a decimal unsigned integer string, NotANumber for any other
NotANumber == 0 - 1

DecimalValue(s) ==
    CASE s = <<"0">> -> 0
      [] s = <<"1">> -> 1
      [] s = <<"2">> -> 2
      [] s = <<"1", "6">> -> 16
      [] s = <<"+", "1", "6">> -> 16
      [] OTHER -> NotANumber

IsFlag(key) ==
    key \in {"FIL_PROOFS_P2_BINDING_USE_SAME_SET", "FIL_PROOFS_BINDING_USE_LOCALITY"}

IsPolicy(key) == key \in {"FIL_PROOFS_P2_BINDING_POLICY", "FIL_PROOFS_P1_BINDING_POLICY"}

\* variant name -> variant, per policy variable
VariantOf(key, s) ==
    IF key = "FIL_PROOFS_P2_BINDING_POLICY"
    THEN CASE s = S_NoBinding -> "NoBinding" [] s = S_Strict -> "Strict"
           [] s = S_Weak -> "Weak" [] OTHER -> "none"
    ELSE CASE s = S_Default -> "Default" [] s = S_ProcessingUnit -> "ProcessingUnit"
           [] s = S_Core -> "Core" [] OTHER -> "none"

\* the documented default of each resolver
DefaultOf(key) ==
    CASE key = "FIL_PROOFS_P2_BOUND_CORES" -> 8
      [] key = "FIL_PROOFS_P2_BINDING_POLICY" -> "NoBinding"
      [] key = "FIL_PROOFS_P2_BINDING_USE_SAME_SET" -> TRUE
      [] key = "FIL_PROOFS_BINDING_USE_LOCALITY" -> TRUE
      [] key = "FIL_PROOFS_P1_BINDING_POLICY" -> "Default"

\* the variable holds a value of its documented domain: one of the three
\* variant names, 0 or 1 for a flag, a positive integer for the core bound
InDomain(key, v) ==
    /\ v.kind = "str"
    /\ IF IsPolicy(key) THEN VariantOf(key, v.s) # "none"
       ELSE IF IsFlag(key) THEN DecimalValue(v.s) \in {0, 1}
       ELSE DecimalValue(v.s) >= 1

\* the variable holds a string its resolver's parser accepts: a variant name,
\* or any decimal unsigned integer
Parses(key, v) ==
    /\ v.kind = "str"
    /\ IF IsPolicy(key) THEN VariantOf(key, v.s) # "none"
       ELSE DecimalValue(v.s) # NotANumber

\* what the resolver of key returns for the variable state v
ValueFor(key, v) ==
    IF ~Parses(key, v) THEN DefaultOf(key)
    ELSE IF IsPolicy(key) THEN VariantOf(key, v.s)
    ELSE IF IsFlag(key) THEN DecimalValue(v.s) # 0
    ELSE DecimalValue(v.s)

\* C6 (as stated): env_lock_p2_cores returns a positive integer: the parsed
\* value when the variable holds a valid integer, 8 when it is unset or
\* non-numeric.
C6_CoresPositive ==
    envRet.fn = "FIL_PROOFS_P2_BOUND_CORES" =>
        /\ envRet.val >= 1
        /\ (envRet.raw.kind = "str" /\ DecimalValue(envRet.raw.s) # NotANumber) =>
              envRet.val = DecimalValue(envRet.raw.s)
        /\ (envRet.raw.kind = "unset"
              \/ (envRet.raw.kind = "str" /\ DecimalValue(envRet.raw.s) = NotANumber)) =>
              envRet.val = 8

\* C6 (amended): env_lock_p2_cores returns a non-negative integer: the parsed
\* value when the variable holds a decimal unsigned integer (0 for "0",
\* positive for any other), 8 when it is unset, not Unicode or non-numeric.
C6_CoresNonNegative ==
    envRet.fn = "FIL_PROOFS_P2_BOUND_CORES" =>
        /\ envRet.val >= 0
        /\ (envRet.raw.kind = "str" /\ DecimalValue(envRet.raw.s) # NotANumber) =>
              envRet.val = DecimalValue(envRet.raw.s)
        /\ (envRet.raw.kind # "str"
              \/ (envRet.raw.kind = "str" /\ DecimalValue(envRet.raw.s) = NotANumber)) =>
              envRet.val = 8
        /\ (envRet.val = 0) => envRet.raw = Str(<<"0">>)

\* the variable holds "16" and the call returned 16
C6_Witness ==
    /\ envRet.fn = "FIL_PROOFS_P2_BOUND_CORES"
    /\ envRet.raw = Str(<<"1", "6">>)
    /\ envRet.val = 16

\* C7 (as stated): every resolver returns a value for every state of its
\* variable, and whenever the variable is set to a value outside its
\* documented domain the default is returned and an error is logged.
C7_OutOfDomainLogged ==
    (envRet.fn # "none" /\ envRet.raw.kind # "unset" /\ ~InDomain(envRet.fn, envRet.raw)) =>
        /\ envRet.val = DefaultOf(envRet.fn)
        /\ envRet.logged

\* C7 (amended): every resolver returns a value for every state of its
\* variable.  A string its parser rejects gives the default and a logged
\* error; an unset or non-Unicode variable gives the default and no log; a
\* string its parser accepts gives the parsed value and no log, also outside
\* the documented domain (any non-zero flag is true, the core bound "0" is 0).
C7_UnparsableLogged ==
    envRet.fn # "none" =>
        /\ envRet.val = ValueFor(envRet.fn, envRet.raw)
        /\ envRet.logged = (envRet.raw.kind = "str" /\ ~Parses(envRet.fn, envRet.raw))
        /\ ~Parses(envRet.fn, envRet.raw) => envRet.val = DefaultOf(envRet.fn)

\* FIL_PROOFS_P2_BINDING_POLICY=Bogus: NoBinding is returned and an error logged
C7_Witness ==
    /\ envRet.fn = "FIL_PROOFS_P2_BINDING_POLICY"
    /\ envRet.raw = Str(S_Bogus)
    /\ envRet.val = "NoBinding"
    /\ envRet.logged

\* C8 (as stated): a resolver called again after its variable was changed
\* returns the same value as its first call.
C8_SecondCallSame ==
    (envRet.fn # "none" /\ envRet.again) => envRet.val = envFirst[envRet.fn].val

\* C8 (amended): no resolver keeps a value between calls.  Every call returns
\* what the variable's state at the time of the call resolves to; it returns
\* the first call's value when the variable is in the state of the first call.
C8_ReadsCurrent ==
    envRet.fn # "none" =>
        /\ envRet.raw = env[envRet.fn]
        /\ envRet.val = ValueFor(envRet.fn, env[envRet.fn])
        /\ (envRet.again /\ env[envRet.fn] = envFirst[envRet.fn].raw) =>
              envRet.val = envFirst[envRet.fn].val

\* a resolver's second call returned another value than its first
C8_Witness ==
    /\ envRet.fn # "none"
    /\ envRet.again
    /\ envRet.val # envFirst[envRet.fn].val

====
